---- MODULE Spec2Model ----
(***************************************************************************)
(* Demonstration-audio pipeline of SpeechCraft AI: the PracticeStudio      *)
(* component (play/stop control, voice selection, voice preview,          *)
(* recording start) together with playRawAudio and the process-wide       *)
(* audio context of services/geminiService.ts, and the conditional mount  *)
(* of PracticeStudio by App.                                              *)
(*                                                                         *)
(* Execution model.  JavaScript runs one task at a time; the continuation *)
(* of an `await` on an already settled promise is a microtask and runs    *)
(* before any other task (click, network response, 'ended' event,         *)
(* completion of AudioContext.resume()).  One action below is therefore   *)
(* one task together with the microtasks it queues: a handler runs up to  *)
(* its first await on the network, on the microphone or on ctx.resume(),  *)
(* and each completion of such an await is an action of its own.  React   *)
(* state written by a task is the state the next task's handlers read.    *)
(*                                                                         *)
(* The voice dropdown can be opened at any time while PracticeStudio is   *)
(* mounted, so a click on a voice row or on a preview button stands for   *)
(* "open the dropdown, then click"; isVoiceDropdownOpen is not a variable.*)
(*                                                                         *)
(* Buffer sources and suspended calls are kept in bags: two of them with  *)
(* the same fields behave alike.  A source stays in the bag while it      *)
(* renders or has its 'ended' event queued.  The one object reference of  *)
(* the program, the closure in stopDemoRef.current, is the `held` mark of *)
(* the source it closes over.                                             *)
(*                                                                         *)
(* The byte-level functions (atob, base64ToWavBlob, decode, decodePCM16)  *)
(* are operators; SpecCodec applies them to every base64 text of a        *)
(* bounded length.  In Spec the audio data is kept as the voice and text  *)
(* it was generated for and whether it decodes.                           *)
(*                                                                         *)
(* SpecRequest is the play/stop control and the voice rows of a mounted   *)
(* PracticeStudio with scripts around the 500-character limit of the      *)
(* demonstration text.  SpecLive is Spec with the promises awaited by the *)
(* demo handler settling.                                                 *)
(***************************************************************************)
EXTENDS Integers, Sequences, FiniteSets, Bags

VARIABLES
    mode,               \* App: AppMode.EDITOR | AppMode.PRACTICE
    script,             \* App: the script handed to PracticeStudio
    demoAudioData,      \* PracticeStudio state: cached base64 PCM, or NoAudio
    isGeneratingDemo,   \* PracticeStudio state
    isPlayingDemo,      \* PracticeStudio state
    stopDemoRef,        \* PracticeStudio ref: "null", "stop" (a closure over a source), "noop"
    selectedVoice,      \* PracticeStudio state
    previewingVoiceId,  \* PracticeStudio state
    isRecording,        \* PracticeStudio state
    micPending,         \* startRecording calls awaiting getUserMedia
    audioContext,       \* geminiService: the module-level context and its state
    sources,            \* bag of the buffer sources started by playRawAudio
    tasks,              \* bag of async calls suspended at an await (network / resume)
    last,               \* history: the handler or completion that ran last
    base64,             \* codec functions: the base64 text they are applied to
    sampleRate,         \* codec functions: the sampleRate argument of base64ToWavBlob
    wavBlob,            \* result of base64ToWavBlob(base64, sampleRate), or NotRun
    audioBuffer,        \* result of decodePCM16(decode(base64), ctx), or NotRun
    played              \* result of playRawAudio(base64) on a running context, or NotRun

vars == <<mode, script, demoAudioData, isGeneratingDemo, isPlayingDemo,
          stopDemoRef, selectedVoice, previewingVoiceId,
          isRecording, micPending, audioContext, sources, tasks, last,
          base64, sampleRate, wavBlob, audioBuffer, played>>

\* The variables of the program
prog == <<mode, script, demoAudioData, isGeneratingDemo, isPlayingDemo,
          stopDemoRef, selectedVoice, previewingVoiceId,
          isRecording, micPending, audioContext, sources, tasks>>

\* The variables of the codec functions' specification
codec == <<base64, sampleRate, wavBlob, audioBuffer, played>>

------------------------------------------------------------------------------
(* Bounds of the model *)

\* async calls suspended at the same time
MaxTasks == 2
\* length of the base64 texts the codec functions are applied to
MaxBase64Len == 6
\* buffer sources rendering or awaiting their 'ended' event at the same time
MaxSources == 2
\* voices of VOICE_OPTIONS that are used
NumVoices == 2
\* startRecording calls awaiting the microphone at the same time
MaxMicPending == 1

------------------------------------------------------------------------------
(* Values *)

NULL == "null"

VoiceIds == <<"Puck", "Charon", "Kore", "Fenrir", "Zephyr">>

VOICE_OPTIONS == { VoiceIds[i] : i \in 1..NumVoices }

\* Strings are sequences of one-character strings.
Scripts == { <<>>, <<" ">>, <<"a">>, <<"a", "b">> }

PreviewText == <<"H", "i">>

DemoLimit == 500

\* base64 PCM as returned by the synthesis service: what it was generated from,
\* and whether atob and the Int16Array view accept it (valid base64, even length).
NoAudio == [voice |-> NULL, text |-> <<>>, valid |-> FALSE]

Audio(v, t, ok) == [voice |-> v, text |-> t, valid |-> ok]

------------------------------------------------------------------------------
(* Pure helpers *)

IsSpace(c) == c = " "

RECURSIVE TrimStart(_)
TrimStart(s) == IF s # <<>> /\ IsSpace(Head(s)) THEN TrimStart(Tail(s)) ELSE s

RECURSIVE TrimEnd(_)
TrimEnd(s) ==
    IF s # <<>> /\ IsSpace(s[Len(s)]) THEN TrimEnd(SubSeq(s, 1, Len(s) - 1)) ELSE s

\* String.prototype.trim
Trim(s) == TrimEnd(TrimStart(s))

\* (mutant) no limit: the whole string
Substring0Whole(s, n) == s

\* String.prototype.substring(0, n)
Substring0(s, n) == IF Len(s) <= n THEN s ELSE SubSeq(s, 1, n)

\* Bags
One(t) == SetToBag({t})

RECURSIVE SumCounts(_, _)
SumCounts(b, S) ==
    IF S = {} THEN 0
    ELSE LET x == CHOOSE x \in S : TRUE IN b[x] + SumCounts(b, S \ {x})

Pending == BagToSet(tasks)
Alive == BagToSet(sources)

------------------------------------------------------------------------------
(* playRawAudio and the audio context *)

\* (mutant) a getAudioContext without the `if (!audioContext)` guard: every call
\* constructs a context
getAudioContextFresh == {"running", "suspended"}

\* getAudioContext: the context is created on first use; whether a new context
\* starts running or suspended is the platform's choice (autoplay policy).
getAudioContext == IF audioContext = NULL THEN {"running", "suspended"} ELSE {audioContext}

\* decode and decodePCM16 return normally (atob accepts the text and the
\* Int16Array view accepts the byte length); otherwise playRawAudio's catch runs.
Decodable(data) == data.valid

\* A buffer source that has been started.  kind: started for the demo (onEnded
\* was passed, an 'ended' listener is registered) or for a preview (no listener);
\* mounted: the PracticeStudio instance that started it is still the mounted one;
\* state: "rendering", or "stopped" / "ended" with the 'ended' event queued;
\* held: stopDemoRef.current of the mounted instance is this source's closure.
Source(kind, m, h) == [kind |-> kind, mounted |-> m, state |-> "rendering", held |-> h]

\* `stopDemoRef.current = ...` overwrites the reference: no source is held
Unheld(s) == [s EXCEPT !.held = FALSE]

UnheldAll(srcs) ==
    [u \in { Unheld(s) : s \in DOMAIN srcs } |->
        SumCounts(srcs, { s \in DOMAIN srcs : Unheld(s) = u })]

\* source.stop(); source.disconnect() inside try/catch, for a rendering source s.
\* Like every AudioScheduledSourceNode that stops playing, a stopped source gets
\* its 'ended' event queued; its listener is still registered.
StopSource(srcs, s) ==
    (srcs (-) One(s)) (+) One([s EXCEPT !.state = "stopped", !.held = FALSE])

\* (mutant) a stop closure that is not bound to its own source: it stops whichever
\* demo source of the instance renders
InvokeStopShared(srcs) ==
    IF \E s \in DOMAIN srcs : s.kind = "demo" /\ s.mounted /\ s.state = "rendering"
    THEN StopSource(srcs, CHOOSE s \in DOMAIN srcs :
                              s.kind = "demo" /\ s.mounted /\ s.state = "rendering")
    ELSE srcs

\* Invocation of the closure in stopDemoRef.current.  On a source that already
\* stopped or ended the calls change nothing; () => {} does nothing.
InvokeStop(srcs) ==
    IF \E s \in DOMAIN srcs : s.held /\ s.state = "rendering"
    THEN StopSource(srcs, CHOOSE s \in DOMAIN srcs : s.held /\ s.state = "rendering")
    ELSE srcs

\* What the closure in stopDemoRef.current is invoked on
StopTarget ==
    IF stopDemoRef = "noop" THEN "noop"
    ELSE IF \E s \in Alive : s.held /\ s.state = "rendering" THEN "rendering"
    ELSE "finished"

\* playRawAudio from `const bytes = decode(...)` to its return, and the caller's
\* assignment of the returned closure when `hold` (the demo handler of the
\* mounted instance: `stopDemoRef.current = stopFn`).  The sources afterwards,
\* the closure returned, and whether the catch branch ran (which calls onEnded,
\* if given, and returns () => {}).
decodeAndStart(srcs, kind, m, hold, data) ==
    LET others == IF hold THEN UnheldAll(srcs) ELSE srcs IN
    IF Decodable(data)
    THEN [sources |-> others (+) One(Source(kind, m, hold)), ret |-> "stop", failed |-> FALSE]
    ELSE [sources |-> others, ret |-> "noop", failed |-> TRUE]

\* An async call suspended at an await.  pc "gen": awaiting
\* generateDemonstrationAudio(text, voice); pc "resume": inside playRawAudio(data),
\* awaiting ctx.resume().  path: which branch of which handler made the call.
\* mounted: the PracticeStudio instance that made the call is still the mounted
\* one; the state setters of an unmounted instance do nothing.
Task(kind, pc, v, t, data, path) ==
    [kind |-> kind, pc |-> pc, mounted |-> TRUE, voice |-> v, text |-> t,
     data |-> data, path |-> path]

\* A source or a suspended call of an instance that is unmounted.  Of the call
\* only what it can still do is kept: start a source, if its data decodes.
OrphanedSource(s) == [s EXCEPT !.mounted = FALSE, !.held = FALSE]

OrphanedSources(srcs) ==
    [u \in { OrphanedSource(s) : s \in DOMAIN srcs } |->
        SumCounts(srcs, { s \in DOMAIN srcs : OrphanedSource(s) = u })]

OrphanedTask(t) ==
    [t EXCEPT !.mounted = FALSE, !.voice = NULL, !.text = <<>>,
              !.data = IF t.pc = "resume" THEN Audio(NULL, <<>>, t.data.valid) ELSE NoAudio]

OrphanedTasks(ts) ==
    [u \in { OrphanedTask(t) : t \in DOMAIN ts } |->
        SumCounts(ts, { t \in DOMAIN ts : OrphanedTask(t) = u })]

\* Whose call or source a completion belongs to
Owner(t) == IF t.mounted THEN "mounted" ELSE "orphaned"

\* No file: what a step that clicks no download link offers
NoFile == [asset |-> NoAudio, sampleRate |-> 0]

\* The history record: the handler or completion that ran last, what it acted on
\* (a stop: StopTarget; an 'ended' event: how the source had finished; a
\* completion of a call: its kind or its owner), and the file it offered for
\* download (the link is created, clicked and revoked inside the handler).
Did(op, on) == [op |-> op, on |-> on, file |-> NoFile]

------------------------------------------------------------------------------
(* The codec functions of geminiService.ts: atob, base64ToWavBlob, decode,      *)
(* decodePCM16.  Bytes are numbers 0..255, a byte array is a sequence of them.  *)

\* The base64 alphabet; the value of a digit is its position, from 0
Base64Digits ==
    << "A","B","C","D","E","F","G","H","I","J","K","L","M","N","O","P",
       "Q","R","S","T","U","V","W","X","Y","Z","a","b","c","d","e","f",
       "g","h","i","j","k","l","m","n","o","p","q","r","s","t","u","v",
       "w","x","y","z","0","1","2","3","4","5","6","7","8","9","+","/" >>

IsBase64Digit(c) == \E i \in 1..Len(Base64Digits) : Base64Digits[i] = c

Base64Value(c) == (CHOOSE i \in 1..Len(Base64Digits) : Base64Digits[i] = c) - 1

\* An exception thrown instead of a value, and a value returned
Thrown(e) == [done |-> TRUE, ok |-> FALSE, error |-> e, value |-> <<>>]
Returned(v) == [done |-> TRUE, ok |-> TRUE, error |-> "", value |-> v]

\* What playRawAudio did: whether its catch branch ran, the closure it returned,
\* the number of sources it started
Played(r) == [done |-> TRUE, failed |-> r.failed, ret |-> r.ret,
              started |-> BagCardinality(r.sources)]

NotPlayed == [done |-> FALSE, failed |-> FALSE, ret |-> "null", started |-> 0]

\* A function that has not been applied
NotRun == [done |-> FALSE, ok |-> FALSE, error |-> "", value |-> <<>>]

\* atob, step 1: a text whose length is a multiple of 4 loses one or two trailing "="
StripPadding(s) ==
    IF Len(s) % 4 = 0 /\ Len(s) > 0 /\ s[Len(s)] = "="
    THEN IF s[Len(s) - 1] = "=" THEN SubSeq(s, 1, Len(s) - 2) ELSE SubSeq(s, 1, Len(s) - 1)
    ELSE s

\* atob, step 2: the bytes of a text of base64 digits.  Four digits give three
\* bytes; two trailing digits give one byte (4 bits dropped), three give two
\* bytes (2 bits dropped).
RECURSIVE DecodeDigits(_)
DecodeDigits(s) ==
    IF Len(s) = 0 THEN <<>>
    ELSE IF Len(s) = 2
    THEN << (Base64Value(s[1]) * 64 + Base64Value(s[2])) \div 16 >>
    ELSE IF Len(s) = 3
    THEN LET n == (Base64Value(s[1]) * 4096 + Base64Value(s[2]) * 64 + Base64Value(s[3])) \div 4
         IN  << n \div 256, n % 256 >>
    ELSE LET n == Base64Value(s[1]) * 262144 + Base64Value(s[2]) * 4096
                  + Base64Value(s[3]) * 64 + Base64Value(s[4])
         IN  << n \div 65536, (n \div 256) % 256, n % 256 >> \o DecodeDigits(SubSeq(s, 5, Len(s)))

\* atob(base64) followed by the loop `bytes[i] = binaryString.charCodeAt(i)`:
\* the bytes, or the InvalidCharacterError atob throws
atob(s) ==
    LET t == StripPadding(s) IN
    IF Len(t) % 4 = 1 \/ \E i \in 1..Len(t) : ~IsBase64Digit(t[i])
    THEN Thrown("InvalidCharacterError")
    ELSE Returned(DecodeDigits(t))

\* decode(base64): the same loop as in base64ToWavBlob
decode(s) == atob(s)

\* string.charCodeAt(i) for the characters of the header's tags
charCodeAt(c) ==
    CASE c = "R" -> 82  [] c = "I" -> 73  [] c = "F" -> 70  [] c = "W" -> 87
      [] c = "A" -> 65  [] c = "V" -> 86  [] c = "E" -> 69  [] c = "f" -> 102
      [] c = "m" -> 109 [] c = "t" -> 116 [] c = " " -> 32  [] c = "d" -> 100
      [] c = "a" -> 97

\* (mutant) the bytes are stored last byte first
StoreBytesReversed(buf, off, bs) ==
    [i \in 1..Len(buf) |-> IF i > off /\ i <= off + Len(bs)
                           THEN bs[Len(bs) + 1 - (i - off)] ELSE buf[i]]

\* The buffer with the bytes bs stored from (0-based) offset off
StoreBytes(buf, off, bs) ==
    [i \in 1..Len(buf) |-> IF i > off /\ i <= off + Len(bs) THEN bs[i - off] ELSE buf[i]]

\* writeString(view, offset, string)
writeString(buf, off, str) ==
    StoreBytes(buf, off, [i \in 1..Len(str) |-> charCodeAt(str[i])])

\* (mutant) setUint32 without the littleEndian argument: high byte first
setUint32BigEndian(buf, off, n) ==
    StoreBytes(buf, off, << (n \div 16777216) % 256, (n \div 65536) % 256,
                            (n \div 256) % 256, n % 256 >>)

\* view.setUint32(offset, n, true): the low 32 bits of n, low byte first
setUint32(buf, off, n) ==
    StoreBytes(buf, off, << n % 256, (n \div 256) % 256,
                            (n \div 65536) % 256, (n \div 16777216) % 256 >>)

\* view.setUint16(offset, n, true): the low 16 bits of n, low byte first
setUint16(buf, off, n) == StoreBytes(buf, off, << n % 256, (n \div 256) % 256 >>)

\* (mutant) a buffer with one byte too many
ArrayBufferPadded(n) == [i \in 1..(n + 1) |-> 0]

\* new ArrayBuffer(n): n zero bytes
ArrayBuffer(n) == [i \in 1..n |-> 0]

\* sampleRate parameter default of base64ToWavBlob
DefaultSampleRate == 24000

\* Size of the header base64ToWavBlob writes
HeaderSize == 44

\* base64ToWavBlob(base64, sampleRate): the bytes of the blob, or what atob threw
base64ToWavBlob(s, rate) ==
    LET d == atob(s) IN
    IF ~d.ok THEN d
    ELSE LET bytes == d.value
             b0  == ArrayBuffer(HeaderSize + Len(bytes))
             b1  == writeString(b0, 0, <<"R", "I", "F", "F">>)
             b2  == setUint32(b1, 4, 36 + Len(bytes))
             b3  == writeString(b2, 8, <<"W", "A", "V", "E">>)
             b4  == writeString(b3, 12, <<"f", "m", "t", " ">>)
             b5  == setUint32(b4, 16, 16)
             b6  == setUint16(b5, 20, 1)
             b7  == setUint16(b6, 22, 1)
             b8  == setUint32(b7, 24, rate)
             b9  == setUint32(b8, 28, rate * 2)
             b10 == setUint16(b9, 32, 2)
             b11 == setUint16(b10, 34, 16)
             b12 == writeString(b11, 36, <<"d", "a", "t", "a">>)
             b13 == setUint32(b12, 40, Len(bytes))
         IN  Returned(StoreBytes(b13, HeaderSize, bytes))

\* The channel count decodePCM16 is called with (its default)
NumChannels == 1

\* The divisor of `dataInt16[i * numChannels + channel] / 32768.0`
SampleScale == 32768

\* (mutant) a view that drops a trailing odd byte instead of throwing
Int16ArrayTruncating(bytes) ==
    Returned([i \in 1..(Len(bytes) \div 2) |->
                 ((bytes[2 * i - 1] + 256 * bytes[2 * i] + 32768) % 65536) - 32768])

\* new Int16Array(data.buffer): the elements of a view over the bytes, in the
\* platform's byte order (little-endian on the platforms browsers run on: the low
\* byte first), or the RangeError for a length that is no multiple of 2
Int16Array(bytes) ==
    IF Len(bytes) % 2 # 0 THEN Thrown("RangeError")
    ELSE Returned([i \in 1..(Len(bytes) \div 2) |->
                      ((bytes[2 * i - 1] + 256 * bytes[2 * i] + 32768) % 65536) - 32768])

\* ctx.createBuffer(numChannels, frameCount, sampleRate): a buffer of frameCount
\* zero samples; a frame count of 0 is a NotSupportedError
createBuffer(frameCount) ==
    IF frameCount < 1 THEN Thrown("NotSupportedError")
    ELSE Returned([i \in 1..frameCount |-> [num |-> 0, den |-> SampleScale]])

\* decodePCM16(data, ctx): the samples of channel 0, each the fraction num / den
\* (exact in a Float32 for a 16-bit num), or what was thrown
decodePCM16(bytes) ==
    LET dataInt16 == Int16Array(bytes) IN
    IF ~dataInt16.ok THEN dataInt16
    ELSE LET frameCount == Len(dataInt16.value) \div NumChannels
             buffer == createBuffer(frameCount)
         IN  IF ~buffer.ok THEN buffer
             ELSE Returned([i \in 1..frameCount |->
                              [num |-> dataInt16.value[(i - 1) * NumChannels + 1],
                               den |-> SampleScale]])

\* `const bytes = decode(base64String); const buffer = await decodePCM16(bytes, ctx);`
decodeToBuffer(s) == LET d == decode(s) IN IF d.ok THEN decodePCM16(d.value) ELSE d

------------------------------------------------------------------------------
(* Initial state *)

Init ==
    /\ mode = "EDITOR"
    /\ script = <<>>
    /\ demoAudioData = NoAudio
    /\ isGeneratingDemo = FALSE
    /\ isPlayingDemo = FALSE
    /\ stopDemoRef = NULL
    /\ selectedVoice = VoiceIds[1]
    /\ previewingVoiceId = NULL
    /\ isRecording = FALSE
    /\ micPending = 0
    /\ audioContext = NULL
    /\ sources = EmptyBag
    /\ tasks = EmptyBag
    /\ last = Did("Init", "")
    /\ base64 = <<>>
    /\ sampleRate = DefaultSampleRate
    /\ wavBlob = NotRun
    /\ audioBuffer = NotRun
    /\ played = NotPlayed

------------------------------------------------------------------------------
(* App *)

\* ScriptEditor's onScriptChange={setScript}; ScriptEditor is mounted in EDITOR mode only.
onScriptChange(s) ==
    /\ last' = Did("onScriptChange", "")
    /\ UNCHANGED codec
    /\ mode = "EDITOR"
    /\ script' = s
    /\ UNCHANGED <<mode, demoAudioData, isGeneratingDemo, isPlayingDemo,
                   stopDemoRef, selectedVoice, previewingVoiceId,
                   isRecording, micPending, audioContext, sources, tasks>>

\* setMode(AppMode.PRACTICE): a new PracticeStudio instance is mounted with the
\* initial values of its useState / useRef hooks (which the unmount left behind).
MountPracticeStudio ==
    /\ last' = Did("MountPracticeStudio", "")
    /\ UNCHANGED codec
    /\ mode = "EDITOR"
    /\ mode' = "PRACTICE"
    /\ UNCHANGED <<script, demoAudioData, isGeneratingDemo, isPlayingDemo,
                   stopDemoRef, selectedVoice, previewingVoiceId,
                   isRecording, micPending, audioContext, sources, tasks>>

\* setMode(AppMode.EDITOR): PracticeStudio is unmounted; its cleanup effect calls
\* stopDemoRef.current if set; its state is discarded (shown here as the initial
\* values, which is what the next instance starts from).
UnmountPracticeStudio ==
    /\ last' = Did("UnmountPracticeStudio", IF stopDemoRef # NULL THEN StopTarget ELSE "")
    /\ UNCHANGED codec
    /\ mode = "PRACTICE"
    /\ mode' = "EDITOR"
    /\ sources' = OrphanedSources(IF stopDemoRef # NULL THEN InvokeStop(sources)
                                         ELSE sources)
    /\ tasks' = OrphanedTasks(tasks)
    /\ demoAudioData' = NoAudio
    /\ isGeneratingDemo' = FALSE
    /\ isPlayingDemo' = FALSE
    /\ stopDemoRef' = NULL
    /\ selectedVoice' = VoiceIds[1]
    /\ previewingVoiceId' = NULL
    /\ isRecording' = FALSE
    /\ micPending' = 0
    /\ UNCHANGED <<script, audioContext>>

------------------------------------------------------------------------------
(* PracticeStudio: the play/stop control (handleGenerateAndPlayDemo) *)

\* (mutant) a callback that leaves the flag alone
onEndedKeeps(playing, m) == playing

\* The callback the demo handler passes to playRawAudio: () => setIsPlayingDemo(false),
\* a state setter of the instance that made the call (m: it is still mounted).
onEnded(playing, m) == IF m THEN FALSE ELSE playing

\* The Generate / Play button is rendered enabled: disabled={isGeneratingDemo || !script}
PlayButtonEnabled == mode = "PRACTICE" /\ ~isGeneratingDemo /\ script # <<>>

\* The guard of the handler's first branch
StopBranch == isPlayingDemo /\ stopDemoRef # NULL

\* (mutant) the cache is not consulted
CacheMiss == FALSE

\* The guard of the handler's second branch: `if (demoAudioData)`
CacheHit == demoAudioData # NoAudio

\* First branch: stop what stopDemoRef holds, clear the flag, return.
DemoStop ==
    /\ last' = Did("DemoStop", StopTarget)
    /\ UNCHANGED codec
    /\ PlayButtonEnabled
    /\ StopBranch
    /\ sources' = InvokeStop(sources)
    /\ isPlayingDemo' = FALSE
    /\ UNCHANGED <<mode, script, demoAudioData, isGeneratingDemo, stopDemoRef,
                   selectedVoice, previewingVoiceId, isRecording, micPending,
                   audioContext, tasks>>

\* Second branch: play the cached data.  Either playRawAudio suspends at
\* ctx.resume(), or it runs to its return and stopDemoRef is assigned.
DemoPlayCached ==
    /\ last' = Did("DemoPlayCached", "")
    /\ UNCHANGED codec
    /\ PlayButtonEnabled
    /\ ~StopBranch
    /\ CacheHit
    /\ \E c \in getAudioContext :
         /\ audioContext' = c
         /\ IF c = "suspended"
            THEN /\ BagCardinality(tasks) < MaxTasks
                 /\ tasks' = tasks (+) One(Task("demo", "resume", demoAudioData.voice,
                                                demoAudioData.text, demoAudioData, "cached"))
                 /\ isPlayingDemo' = TRUE
                 /\ UNCHANGED <<sources, stopDemoRef>>
            ELSE LET r == decodeAndStart(sources, "demo", TRUE, TRUE, demoAudioData) IN
                 /\ BagCardinality(sources) < MaxSources
                 /\ sources' = r.sources
                 /\ stopDemoRef' = r.ret
                 /\ isPlayingDemo' = IF r.failed THEN onEnded(TRUE, TRUE) ELSE TRUE
                 /\ UNCHANGED tasks
    /\ UNCHANGED <<mode, script, demoAudioData, isGeneratingDemo, selectedVoice,
                   previewingVoiceId, isRecording, micPending>>

\* `if (!script.trim()) return;`
DemoBlankScript ==
    /\ last' = Did("DemoBlankScript", "")
    /\ UNCHANGED codec
    /\ PlayButtonEnabled
    /\ ~StopBranch
    /\ ~CacheHit
    /\ Trim(script) = <<>>
    /\ UNCHANGED <<mode, script, demoAudioData, isGeneratingDemo, isPlayingDemo,
                   stopDemoRef, selectedVoice, previewingVoiceId, isRecording,
                   micPending, audioContext, sources, tasks>>

\* Third branch up to `await generateDemonstrationAudio(script.substring(0, 500), selectedVoice.id)`
DemoGenerate ==
    /\ last' = Did("DemoGenerate", "")
    /\ UNCHANGED codec
    /\ PlayButtonEnabled
    /\ ~StopBranch
    /\ ~CacheHit
    /\ Trim(script) # <<>>
    /\ BagCardinality(tasks) < MaxTasks
    /\ isGeneratingDemo' = TRUE
    /\ tasks' = tasks (+) One(Task("demo", "gen", selectedVoice,
                                   Substring0(script, DemoLimit), NoAudio, "generated"))
    /\ UNCHANGED <<mode, script, demoAudioData, isPlayingDemo, stopDemoRef,
                   selectedVoice, previewingVoiceId, isRecording, micPending,
                   audioContext, sources>>

handleGenerateAndPlayDemo == DemoStop \/ DemoPlayCached \/ DemoBlankScript \/ DemoGenerate

\* generateDemonstrationAudio resolved for the demo handler: setDemoAudioData,
\* setIsPlayingDemo(true), playRawAudio, and (unless it suspends at ctx.resume())
\* the assignment of stopDemoRef and the finally block.  The state setters of an
\* unmounted instance do nothing; playRawAudio runs all the same.
DemoGenResolved(t) ==
    /\ last' = Did("DemoGenResolved", Owner(t))
    /\ UNCHANGED codec
    /\ t \in Pending
    /\ t.kind = "demo" /\ t.pc = "gen"
    /\ \E ok \in BOOLEAN, c \in getAudioContext :
         LET live == t.mounted
             data == Audio(t.voice, t.text, ok)
             r == decodeAndStart(sources, "demo", live, live, data)
         IN  /\ audioContext' = c
             /\ demoAudioData' = IF live THEN data ELSE demoAudioData
             /\ IF c = "suspended"
                THEN /\ tasks' = (tasks (-) One(t))
                                 (+) One([t EXCEPT !.pc = "resume", !.data = data])
                     /\ isPlayingDemo' = IF live THEN TRUE ELSE isPlayingDemo
                     /\ UNCHANGED <<sources, stopDemoRef, isGeneratingDemo>>
                ELSE /\ BagCardinality(sources) < MaxSources
                     /\ tasks' = tasks (-) One(t)
                     /\ sources' = r.sources
                     /\ stopDemoRef' = IF live THEN r.ret ELSE stopDemoRef
                     /\ isPlayingDemo' = IF ~live THEN isPlayingDemo
                                         ELSE IF r.failed THEN onEnded(TRUE, TRUE) ELSE TRUE
                     /\ isGeneratingDemo' = IF live THEN FALSE ELSE isGeneratingDemo
    /\ UNCHANGED <<mode, script, selectedVoice, previewingVoiceId, isRecording, micPending>>

\* (mutant) a rejected generation leaves an entry in the cache
DemoGenRejectedCaching(t) ==
    /\ last' = Did("DemoGenRejected", Owner(t))
    /\ UNCHANGED codec
    /\ t \in Pending
    /\ t.kind = "demo" /\ t.pc = "gen"
    /\ tasks' = tasks (-) One(t)
    /\ isGeneratingDemo' = IF t.mounted THEN FALSE ELSE isGeneratingDemo
    /\ demoAudioData' = IF t.mounted THEN Audio(t.voice, t.text, FALSE) ELSE demoAudioData
    /\ UNCHANGED <<mode, script, isPlayingDemo, stopDemoRef,
                   selectedVoice, previewingVoiceId, isRecording,
                   micPending, audioContext, sources>>

\* (mutant) a handler without the finally block: isGeneratingDemo is left set
DemoGenRejectedStuck(t) ==
    /\ last' = Did("DemoGenRejected", Owner(t))
    /\ UNCHANGED codec
    /\ t \in Pending
    /\ t.kind = "demo" /\ t.pc = "gen"
    /\ tasks' = tasks (-) One(t)
    /\ UNCHANGED <<mode, script, demoAudioData, isGeneratingDemo, isPlayingDemo,
                   stopDemoRef, selectedVoice, previewingVoiceId, isRecording,
                   micPending, audioContext, sources>>

\* generateDemonstrationAudio rejected for the demo handler: alert, finally.
DemoGenRejected(t) ==
    /\ last' = Did("DemoGenRejected", Owner(t))
    /\ UNCHANGED codec
    /\ t \in Pending
    /\ t.kind = "demo" /\ t.pc = "gen"
    /\ tasks' = tasks (-) One(t)
    /\ isGeneratingDemo' = IF t.mounted THEN FALSE ELSE isGeneratingDemo
    /\ UNCHANGED <<mode, script, demoAudioData, isPlayingDemo, stopDemoRef,
                   selectedVoice, previewingVoiceId, isRecording,
                   micPending, audioContext, sources>>

------------------------------------------------------------------------------
(* PracticeStudio: voice preview (handlePreviewVoice) and voice selection *)

\* The guard of handlePreviewVoice: `if (previewingVoiceId === voice.id) return;`
PreviewBusy(v) == previewingVoiceId = v

\* The preview button of voice v is clicked and the guard returns.
PreviewDeclined(v) ==
    /\ last' = Did("PreviewDeclined", "")
    /\ UNCHANGED codec
    /\ mode = "PRACTICE"
    /\ PreviewBusy(v)
    /\ UNCHANGED <<mode, script, demoAudioData, isGeneratingDemo, isPlayingDemo,
                   stopDemoRef, selectedVoice, previewingVoiceId, isRecording,
                   micPending, audioContext, sources, tasks>>

\* (mutant) a preview click without e.stopPropagation(): the click reaches the
\* voice row as well, which selects the voice and clears the cache
PreviewStartSelecting(v) ==
    /\ last' = Did("PreviewStart", "")
    /\ UNCHANGED codec
    /\ mode = "PRACTICE"
    /\ previewingVoiceId # v
    /\ BagCardinality(tasks) < MaxTasks
    /\ previewingVoiceId' = v
    /\ tasks' = tasks (+) One(Task("preview", "gen", v, PreviewText, NoAudio, "preview"))
    /\ selectedVoice' = v
    /\ demoAudioData' = NoAudio
    /\ UNCHANGED <<mode, script, isGeneratingDemo, isPlayingDemo, stopDemoRef,
                   isRecording, micPending, audioContext, sources>>

\* The preview button of voice v is clicked: setPreviewingVoiceId(voice.id), then
\* `await generateDemonstrationAudio(previewText, voice.id)`.
PreviewStart(v) ==
    /\ last' = Did("PreviewStart", "")
    /\ UNCHANGED codec
    /\ mode = "PRACTICE"
    /\ ~PreviewBusy(v)
    /\ BagCardinality(tasks) < MaxTasks
    /\ previewingVoiceId' = v
    /\ tasks' = tasks (+) One(Task("preview", "gen", v, PreviewText, NoAudio, "preview"))
    /\ UNCHANGED <<mode, script, demoAudioData, isGeneratingDemo, isPlayingDemo,
                   stopDemoRef, selectedVoice, isRecording,
                   micPending, audioContext, sources>>

handlePreviewVoice(v) == PreviewDeclined(v) \/ PreviewStart(v)

\* generateDemonstrationAudio resolved for a preview: `await playRawAudio(audioData)`
\* (no onEnded, the closure returned is dropped), then the finally block.
PreviewGenResolved(t) ==
    /\ last' = Did("PreviewGenResolved", Owner(t))
    /\ UNCHANGED codec
    /\ t \in Pending
    /\ t.kind = "preview" /\ t.pc = "gen"
    /\ \E ok \in BOOLEAN, c \in getAudioContext :
         LET data == Audio(t.voice, t.text, ok)
             r == decodeAndStart(sources, "preview", t.mounted, FALSE, data)
         IN  /\ audioContext' = c
             /\ IF c = "suspended"
                THEN /\ tasks' = (tasks (-) One(t))
                                 (+) One([t EXCEPT !.pc = "resume", !.data = data])
                     /\ UNCHANGED <<sources, previewingVoiceId>>
                ELSE /\ BagCardinality(sources) < MaxSources
                     /\ tasks' = tasks (-) One(t)
                     /\ sources' = r.sources
                     /\ previewingVoiceId' = IF t.mounted THEN NULL ELSE previewingVoiceId
    /\ UNCHANGED <<mode, script, demoAudioData, isGeneratingDemo, isPlayingDemo,
                   stopDemoRef, selectedVoice, isRecording, micPending>>

\* generateDemonstrationAudio rejected for a preview: console.error, finally.
PreviewGenRejected(t) ==
    /\ last' = Did("PreviewGenRejected", Owner(t))
    /\ UNCHANGED codec
    /\ t \in Pending
    /\ t.kind = "preview" /\ t.pc = "gen"
    /\ tasks' = tasks (-) One(t)
    /\ previewingVoiceId' = IF t.mounted THEN NULL ELSE previewingVoiceId
    /\ UNCHANGED <<mode, script, demoAudioData, isGeneratingDemo, isPlayingDemo,
                   stopDemoRef, selectedVoice, isRecording,
                   micPending, audioContext, sources>>

\* The state of the caller after `await playRawAudio(...)` returned (failed: the
\* catch branch of playRawAudio ran and called onEnded if given) and the caller's
\* continuation ran.  demo: the finally block on the generate path; preview: the
\* finally block.  The catch blocks of the callers do not run: playRawAudio
\* resolves in both cases.
CallerAfterPlay(t, failed) ==
    [isPlayingDemo |-> IF t.kind = "demo" /\ failed
                       THEN onEnded(isPlayingDemo, t.mounted) ELSE isPlayingDemo,
     isGeneratingDemo |-> IF t.mounted /\ t.kind = "demo" /\ t.path = "generated"
                          THEN FALSE ELSE isGeneratingDemo,
     previewingVoiceId |-> IF t.mounted /\ t.kind = "preview" THEN NULL ELSE previewingVoiceId]

\* The caller's continuation after `await playRawAudio(...)` returned closure `ret`:
\* `stopDemoRef.current = stopFn` (demo), and the state of CallerAfterPlay.
AfterPlay(t, ret, failed) ==
    /\ stopDemoRef' = IF t.mounted /\ t.kind = "demo" THEN ret ELSE stopDemoRef
    /\ isPlayingDemo' = CallerAfterPlay(t, failed).isPlayingDemo
    /\ isGeneratingDemo' = CallerAfterPlay(t, failed).isGeneratingDemo
    /\ previewingVoiceId' = CallerAfterPlay(t, failed).previewingVoiceId

\* ctx.resume() resolved inside a playRawAudio call: decode, start, return.
ResumeResolved(t) ==
    /\ last' = Did("ResumeResolved", t.kind)
    /\ UNCHANGED codec
    /\ t \in Pending
    /\ t.pc = "resume"
    /\ BagCardinality(sources) < MaxSources
    /\ LET r == decodeAndStart(sources, t.kind, t.mounted, t.mounted /\ t.kind = "demo", t.data)
       IN  /\ sources' = r.sources
           /\ AfterPlay(t, r.ret, r.failed)
    /\ audioContext' = "running"
    /\ tasks' = tasks (-) One(t)
    /\ UNCHANGED <<mode, script, demoAudioData, selectedVoice, isRecording, micPending>>

\* (mutant) a playRawAudio that does not wait for the context: after a rejected
\* ctx.resume() it decodes and starts the source all the same
ResumeRejectedStarts(t) ==
    /\ last' = Did("ResumeRejected", t.kind)
    /\ UNCHANGED codec
    /\ t \in Pending
    /\ t.pc = "resume"
    /\ BagCardinality(sources) < MaxSources
    /\ LET r == decodeAndStart(sources, t.kind, t.mounted, t.mounted /\ t.kind = "demo", t.data)
       IN  /\ sources' = r.sources
           /\ AfterPlay(t, r.ret, r.failed)
    /\ tasks' = tasks (-) One(t)
    /\ UNCHANGED <<mode, script, demoAudioData, selectedVoice,
                   isRecording, micPending, audioContext>>

\* ctx.resume() rejected inside a playRawAudio call: the catch branch.
ResumeRejected(t) ==
    /\ last' = Did("ResumeRejected", t.kind)
    /\ UNCHANGED codec
    /\ t \in Pending
    /\ t.pc = "resume"
    /\ AfterPlay(t, "noop", TRUE)
    /\ sources' = IF t.mounted /\ t.kind = "demo" THEN UnheldAll(sources) ELSE sources
    /\ tasks' = tasks (-) One(t)
    /\ UNCHANGED <<mode, script, demoAudioData, selectedVoice,
                   isRecording, micPending, audioContext>>

\* The cache after a click on a voice row: `if (demoAudioData) setDemoAudioData(null)`
ClearedOnSelect(d) == IF d # NoAudio THEN NoAudio ELSE d

\* A voice row is clicked: setSelectedVoice(voice), the cache is cleared.
SelectVoice(v) ==
    /\ last' = Did("SelectVoice", "")
    /\ UNCHANGED codec
    /\ mode = "PRACTICE"
    /\ selectedVoice' = v
    /\ demoAudioData' = ClearedOnSelect(demoAudioData)
    /\ UNCHANGED <<mode, script, isGeneratingDemo, isPlayingDemo, stopDemoRef,
                   previewingVoiceId, isRecording, micPending, audioContext, sources, tasks>>

------------------------------------------------------------------------------
(* PracticeStudio: download (handleDownload) *)

\* (mutant) the blob is encoded at another sample rate than the default
WavFileOtherRate(d) == [asset |-> d, sampleRate |-> 44100]

\* `base64ToWavBlob(demoAudioData)` as clicked on the link: the WAV encoding of
\* the asset d at the default sample rate.  In Spec an asset is known by what it
\* was generated for; its bytes are those of base64ToWavBlob.
WavFile(d) == [asset |-> d, sampleRate |-> DefaultSampleRate]

\* Whether atob accepts the asset's text.  It does when the asset decodes for
\* playback; a text that does not decode may still be valid base64 (an odd or
\* an empty payload) or not.
AtobAccepts(d) == IF Decodable(d) THEN {TRUE} ELSE BOOLEAN

\* The Download button (rendered only while demoAudioData is set; the handler
\* returns at once without it): the blob is built, an object URL for it is set
\* on a link, the link is clicked and the URL revoked.  When atob throws, the
\* handler ends there and no link is clicked.
handleDownload ==
    /\ mode = "PRACTICE"
    /\ demoAudioData # NoAudio
    /\ \E accepted \in AtobAccepts(demoAudioData) :
         last' = IF accepted
                 THEN [Did("handleDownload", "offered") EXCEPT !.file = WavFile(demoAudioData)]
                 ELSE Did("handleDownload", "threw")
    /\ UNCHANGED codec
    /\ UNCHANGED <<mode, script, demoAudioData, isGeneratingDemo, isPlayingDemo,
                   stopDemoRef, selectedVoice, previewingVoiceId,
                   isRecording, micPending, audioContext, sources, tasks>>

------------------------------------------------------------------------------
(* The platform: sources ending, 'ended' events *)

\* The buffer of a rendering source has been played to its end.  With a listener
\* registered its 'ended' event is queued; without one nothing is left to happen.
SourceEnds(s) ==
    /\ last' = Did("SourceEnds", s.kind)
    /\ UNCHANGED codec
    /\ s \in Alive
    /\ s.state = "rendering"
    /\ sources' = IF s.kind = "demo"
                  THEN (sources (-) One(s)) (+) One([s EXCEPT !.state = "ended", !.held = FALSE])
                  ELSE sources (-) One(s)
    /\ UNCHANGED <<mode, script, demoAudioData, isGeneratingDemo, isPlayingDemo,
                   stopDemoRef, selectedVoice, previewingVoiceId,
                   isRecording, micPending, audioContext, tasks>>

\* How a source whose 'ended' event is dispatched had finished
Finished(s) == IF s.mounted THEN s.state ELSE Owner(s)

\* The queued 'ended' event of a source is dispatched to its listener.
EndedEvent(s) ==
    /\ last' = Did("onEnded", Finished(s))
    /\ UNCHANGED codec
    /\ s \in Alive
    /\ s.state # "rendering"
    /\ sources' = sources (-) One(s)
    /\ isPlayingDemo' = onEnded(isPlayingDemo, s.mounted)
    /\ UNCHANGED <<mode, script, demoAudioData, isGeneratingDemo, stopDemoRef,
                   selectedVoice, previewingVoiceId, isRecording,
                   micPending, audioContext, tasks>>

------------------------------------------------------------------------------
(* PracticeStudio: recording *)

\* The record button (shown while !isRecording, disabled={!script}): stop the demo
\* if playing, then `await navigator.mediaDevices.getUserMedia(...)`.
startRecording ==
    /\ last' = Did("startRecording", IF StopBranch THEN StopTarget ELSE "")
    /\ UNCHANGED codec
    /\ mode = "PRACTICE"
    /\ ~isRecording
    /\ script # <<>>
    /\ micPending < MaxMicPending
    /\ IF StopBranch
       THEN /\ sources' = InvokeStop(sources)
            /\ isPlayingDemo' = FALSE
       ELSE UNCHANGED <<sources, isPlayingDemo>>
    /\ micPending' = micPending + 1
    /\ UNCHANGED <<mode, script, demoAudioData, isGeneratingDemo, stopDemoRef,
                   selectedVoice, previewingVoiceId, isRecording, audioContext, tasks>>

\* getUserMedia resolved: the recorder is started, setIsRecording(true).
MicGranted ==
    /\ last' = Did("MicGranted", "")
    /\ UNCHANGED codec
    /\ mode = "PRACTICE"
    /\ micPending > 0
    /\ micPending' = micPending - 1
    /\ isRecording' = TRUE
    /\ UNCHANGED <<mode, script, demoAudioData, isGeneratingDemo, isPlayingDemo,
                   stopDemoRef, selectedVoice, previewingVoiceId,
                   audioContext, sources, tasks>>

\* getUserMedia rejected: console.error, alert.
MicDenied ==
    /\ last' = Did("MicDenied", "")
    /\ UNCHANGED codec
    /\ mode = "PRACTICE"
    /\ micPending > 0
    /\ micPending' = micPending - 1
    /\ UNCHANGED <<mode, script, demoAudioData, isGeneratingDemo, isPlayingDemo,
                   stopDemoRef, selectedVoice, previewingVoiceId,
                   isRecording, audioContext, sources, tasks>>

\* The stop button (shown while isRecording).
stopRecording ==
    /\ last' = Did("stopRecording", "")
    /\ UNCHANGED codec
    /\ mode = "PRACTICE"
    /\ isRecording
    /\ isRecording' = FALSE
    /\ UNCHANGED <<mode, script, demoAudioData, isGeneratingDemo, isPlayingDemo,
                   stopDemoRef, selectedVoice, previewingVoiceId, micPending,
                   audioContext, sources, tasks>>

------------------------------------------------------------------------------
(* Specification *)

Next ==
    \/ \E s \in Scripts : onScriptChange(s)
    \/ MountPracticeStudio
    \/ UnmountPracticeStudio
    \/ DemoStop
    \/ DemoPlayCached
    \/ DemoBlankScript
    \/ DemoGenerate
    \/ \E t \in Pending : DemoGenResolved(t)
    \/ \E t \in Pending : DemoGenRejected(t)
    \/ \E v \in VOICE_OPTIONS : PreviewDeclined(v)
    \/ \E v \in VOICE_OPTIONS : PreviewStart(v)
    \/ \E t \in Pending : PreviewGenResolved(t)
    \/ \E t \in Pending : PreviewGenRejected(t)
    \/ \E t \in Pending : ResumeResolved(t)
    \/ \E t \in Pending : ResumeRejected(t)
    \/ \E v \in VOICE_OPTIONS : SelectVoice(v)
    \/ handleDownload
    \/ \E s \in Alive : SourceEnds(s)
    \/ \E s \in Alive : EndedEvent(s)
    \/ startRecording
    \/ MicGranted
    \/ MicDenied
    \/ stopRecording

Spec == Init /\ [][Next]_vars

\* The synthesis service answers the request of the mounted instance's demo
\* handler: the promise of generateDemonstrationAudio settles
GenerationSettles ==
    \E t \in Pending : t.kind = "demo" /\ t.mounted /\ (DemoGenResolved(t) \/ DemoGenRejected(t))

\* The promise of ctx.resume() awaited by the playRawAudio call of that handler
\* settles
DemoResumeSettles ==
    \E t \in Pending : t.kind = "demo" /\ t.mounted /\ (ResumeResolved(t) \/ ResumeRejected(t))

\* Spec with the promises awaited by the demo handler settling.  Each of the two
\* actions is enabled for as long as such a promise is pending (it can always be
\* rejected), so weak fairness is what "the promise settles" amounts to.
SpecLive ==
    /\ Spec
    /\ WF_vars(GenerationSettles)
    /\ WF_vars(DemoResumeSettles)

------------------------------------------------------------------------------
(* The play/stop control and the voice rows of a mounted PracticeStudio whose  *)
(* script is as long as the limit of the demonstration text, or longer         *)

\* A script of n characters; the one at the limit and those behind it differ
\* from the ones before
ScriptOfLen(n) ==
    [i \in 1..n |-> IF i < DemoLimit THEN "x" ELSE IF i = DemoLimit THEN "y" ELSE "z"]

\* Script lengths around the limit
ScriptLengths == {1, DemoLimit - 1, DemoLimit, DemoLimit + 1, DemoLimit + 2}

LongScripts == { ScriptOfLen(n) : n \in ScriptLengths }

\* PracticeStudio has been mounted with a script typed in the editor
RequestInit ==
    /\ mode = "PRACTICE"
    /\ script \in LongScripts
    /\ demoAudioData = NoAudio
    /\ isGeneratingDemo = FALSE
    /\ isPlayingDemo = FALSE
    /\ stopDemoRef = NULL
    /\ selectedVoice = VoiceIds[1]
    /\ previewingVoiceId = NULL
    /\ isRecording = FALSE
    /\ micPending = 0
    /\ audioContext = NULL
    /\ sources = EmptyBag
    /\ tasks = EmptyBag
    /\ last = Did("MountPracticeStudio", "")
    /\ base64 = <<>>
    /\ sampleRate = DefaultSampleRate
    /\ wavBlob = NotRun
    /\ audioBuffer = NotRun
    /\ played = NotPlayed

RequestNext ==
    \/ DemoStop
    \/ DemoPlayCached
    \/ DemoGenerate
    \/ \E t \in Pending : DemoGenResolved(t)
    \/ \E t \in Pending : DemoGenRejected(t)
    \/ \E t \in Pending : ResumeResolved(t)
    \/ \E t \in Pending : ResumeRejected(t)
    \/ \E v \in VOICE_OPTIONS : SelectVoice(v)
    \/ \E s \in Alive : SourceEnds(s)
    \/ \E s \in Alive : EndedEvent(s)

SpecRequest == RequestInit /\ [][RequestNext]_vars

------------------------------------------------------------------------------
(* The codec functions applied to bounded inputs *)

\* Characters of the texts: base64 digits of value 0, 8, 32 and 63, and the
\* padding character (which is malformed anywhere but at the end)
Base64Chars == {"A", "I", "g", "/", "="}

RECURSIVE TextsOfLen(_)
TextsOfLen(n) ==
    IF n = 0 THEN { <<>> }
    ELSE { Append(t, c) : t \in TextsOfLen(n - 1), c \in Base64Chars }

Base64Texts == UNION { TextsOfLen(n) : n \in 0..MaxBase64Len }

SampleRates == {DefaultSampleRate, 44100}

CodecInit ==
    /\ mode = "EDITOR"
    /\ script = <<>>
    /\ demoAudioData = NoAudio
    /\ isGeneratingDemo = FALSE
    /\ isPlayingDemo = FALSE
    /\ stopDemoRef = NULL
    /\ selectedVoice = VoiceIds[1]
    /\ previewingVoiceId = NULL
    /\ isRecording = FALSE
    /\ micPending = 0
    /\ audioContext = "running"
    /\ sources = EmptyBag
    /\ tasks = EmptyBag
    /\ last = Did("Init", "")
    /\ base64 \in Base64Texts
    /\ sampleRate \in SampleRates
    /\ wavBlob = NotRun
    /\ audioBuffer = NotRun
    /\ played = NotPlayed

\* base64ToWavBlob(base64, sampleRate) is called
CallBase64ToWavBlob ==
    /\ ~wavBlob.done
    /\ wavBlob' = base64ToWavBlob(base64, sampleRate)
    /\ last' = Did("base64ToWavBlob", "")
    /\ UNCHANGED <<prog, base64, sampleRate, audioBuffer, played>>

\* decodePCM16(decode(base64), ctx) is called
CallDecodePCM16 ==
    /\ ~audioBuffer.done
    /\ audioBuffer' = decodeToBuffer(base64)
    /\ last' = Did("decodePCM16", "")
    /\ UNCHANGED <<prog, base64, sampleRate, wavBlob, played>>

\* playRawAudio(base64, onEnded) is called while the context is running
CallPlayRawAudio ==
    /\ ~played.done
    /\ played' = Played(decodeAndStart(EmptyBag, "demo", TRUE, TRUE,
                                       Audio(NULL, <<>>, decodeToBuffer(base64).ok)))
    /\ last' = Did("playRawAudio", "")
    /\ UNCHANGED <<prog, base64, sampleRate, wavBlob, audioBuffer>>

CodecNext == CallBase64ToWavBlob \/ CallDecodePCM16 \/ CallPlayRawAudio

SpecCodec == CodecInit /\ [][CodecNext]_vars

------------------------------------------------------------------------------
(* Measures used by the properties *)

\* Sources that render
RenderingCount == SumCounts(sources, { s \in Alive : s.state = "rendering" })

\* Demo sources of the mounted instance that render
DemoRenderingCount ==
    SumCounts(sources, { s \in Alive : s.kind = "demo" /\ s.mounted /\ s.state = "rendering" })

\* Demo sources that ended naturally and whose 'ended' event is queued
EndedQueued == SumCounts(sources, { s \in Alive : s.state = "ended" })

\* Calls of generateDemonstrationAudio that have not settled
GenCalls == SumCounts(tasks, { t \in Pending : t.pc = "gen" })

\* Voice previews of the mounted instance, of voice v, that have not returned
PreviewsOutstanding(v) ==
    SumCounts(tasks, { t \in Pending : t.kind = "preview" /\ t.mounted /\ t.voice = v })

\* playRawAudio calls of the mounted instance's demo handler suspended at ctx.resume()
DemoStarting == { t \in Pending : t.kind = "demo" /\ t.mounted /\ t.pc = "resume" }

------------------------------------------------------------------------------
(* Properties *)

\* C1: across demo playback and voice previews, never two buffer sources
\* started by playRawAudio render at the same time.
C1_AtMostOneSourceRendering == RenderingCount <= 1

\* C2: no two demonstration sessions of the component render concurrently.
C2_AtMostOneDemoRendering == DemoRenderingCount <= 1

\* C3: the onEnded callback of a session is never invoked after the session's
\* stop closure preempted it.
C3_NoOnEndedAfterStop == last # Did("onEnded", "stopped")

\* C4: a stop closure invoked on a session that no longer renders (stopped
\* before, or ended naturally), or the closure () => {}, changes no session and
\* leaves isPlayingDemo false; startRecording while isPlayingDemo is false leaves
\* sessions, flag and reference as they are.
C4_StopIdempotent ==
    [][ /\ (DemoStop /\ StopTarget # "rendering")
            => (sources' = sources /\ ~isPlayingDemo')
        /\ (startRecording /\ isPlayingDemo /\ stopDemoRef # NULL /\ StopTarget # "rendering")
            => (sources' = sources /\ ~isPlayingDemo')
        /\ (UnmountPracticeStudio /\ stopDemoRef # NULL /\ StopTarget # "rendering")
            => (sources' = OrphanedSources(sources) /\ ~isPlayingDemo')
        /\ (startRecording /\ ~isPlayingDemo)
            => UNCHANGED <<sources, isPlayingDemo, stopDemoRef>>
      ]_vars

\* C4 witness: the control invoked the closure of a session that had already
\* finished, while another source was rendering.
C4_Witness == last = Did("DemoStop", "finished") /\ RenderingCount > 0 /\ ~isPlayingDemo

\* C5: a natural end of a demo session queues exactly one 'ended' event, nothing
\* else queues or removes one, and its dispatch invokes onEnded once, after which
\* isPlayingDemo is false.
C5_NaturalEnd ==
    [][ /\ \A s \in Alive : (SourceEnds(s) /\ s.kind = "demo")
                               => EndedQueued' = EndedQueued + 1
        /\ \A s \in Alive : (EndedEvent(s) /\ s.state = "ended")
                               => /\ EndedQueued' = EndedQueued - 1
                                  /\ s.mounted => ~isPlayingDemo'
        /\ (~ \E s \in Alive : (SourceEnds(s) /\ s.kind = "demo")
                               \/ (EndedEvent(s) /\ s.state = "ended"))
              => EndedQueued' = EndedQueued
      ]_vars

\* C5 witness: the 'ended' event of a naturally ended session was dispatched.
C5_Witness == last = Did("onEnded", "ended") /\ mode = "PRACTICE" /\ ~isPlayingDemo

\* C6: an activation of the play/stop control while isPlayingDemo takes the stop
\* branch, makes no new call, and stops the current session: afterwards the
\* source in stopDemoRef does not render and no demo session of the instance is
\* about to start; an activation while not playing plays the cached asset if
\* there is one and otherwise (the script not being blank) requests a generation.
C6_Toggle ==
    [][ handleGenerateAndPlayDemo =>
          IF isPlayingDemo
          THEN /\ last'.op = "DemoStop"
               /\ tasks' = tasks
               /\ ~ \E s \in BagToSet(sources') : s.held /\ s.state = "rendering"
               /\ DemoStarting' = {}
          ELSE IF demoAudioData # NoAudio
          THEN last'.op = "DemoPlayCached"
          ELSE Trim(script) # <<>> => last'.op = "DemoGenerate"
      ]_vars

\* C7: an activation of the control while an asset is cached makes no call of
\* generateDemonstrationAudio; if nothing is playing it plays the cached asset.
C7_CacheHitSkipsGeneration ==
    [][ (handleGenerateAndPlayDemo /\ demoAudioData # NoAudio) =>
          /\ GenCalls' = GenCalls
          /\ demoAudioData' = demoAudioData
          /\ ~isPlayingDemo =>
                /\ last'.op = "DemoPlayCached"
                /\ \A t \in BagToSet(tasks') \ Pending : t.data = demoAudioData
      ]_vars

\* C7 witness: the cached asset was played without a generation being requested.
C7_Witness ==
    /\ last.op = "DemoPlayCached"
    /\ demoAudioData # NoAudio
    /\ GenCalls = 0
    /\ DemoRenderingCount = 1

\* C8: a change of the voice selection removes the cached asset, and a play
\* request never replays an asset generated for another voice or text.
C8_Invalidation ==
    [][ /\ \A v \in VOICE_OPTIONS : SelectVoice(v) => demoAudioData' = NoAudio
        /\ DemoPlayCached => /\ demoAudioData.voice = selectedVoice
                             /\ demoAudioData.text = Substring0(script, DemoLimit)
      ]_vars

\* C9: the cache becomes non-empty only when generateDemonstrationAudio resolved;
\* a rejected generation leaves the cache empty, starts no playback and clears
\* isGeneratingDemo; an activation with an empty cache (nothing playing, the
\* script not blank) requests a generation.
C9_NoNegativeCaching ==
    [][ /\ (demoAudioData' # demoAudioData /\ demoAudioData' # NoAudio)
              => last'.op = "DemoGenResolved"
        /\ \A t \in Pending : (DemoGenRejected(t) /\ t.mounted)
              => /\ demoAudioData = NoAudio /\ demoAudioData' = NoAudio
                 /\ sources' = sources
                 /\ DemoStarting' = DemoStarting
                 /\ ~isGeneratingDemo'
        /\ (handleGenerateAndPlayDemo /\ ~isPlayingDemo /\ demoAudioData = NoAudio
              /\ Trim(script) # <<>>)
              => (last'.op = "DemoGenerate" /\ GenCalls' = GenCalls + 1)
      ]_vars

\* C9 witness: a generation of the mounted instance was rejected.
C9_Witness ==
    /\ last = Did("DemoGenRejected", "mounted")
    /\ mode = "PRACTICE"
    /\ demoAudioData = NoAudio
    /\ ~isGeneratingDemo

\* C10: a preview of voice v requested while an earlier preview of v has not
\* returned is declined: no call of generateDemonstrationAudio, no state change.
C10_SingleFlightPerVoice ==
    [][ \A v \in VOICE_OPTIONS :
          (handlePreviewVoice(v) /\ PreviewsOutstanding(v) > 0)
             => (GenCalls' = GenCalls /\ UNCHANGED prog)
      ]_vars

\* Calls of generateDemonstrationAudio made by handlePreviewVoice of the mounted
\* instance that have not settled
PreviewGenCalls ==
    SumCounts(tasks, { t \in Pending : t.kind = "preview" /\ t.mounted /\ t.pc = "gen" })

\* C11: at most one voice-preview generation request is outstanding at any time.
C11_OnePreviewGeneration == PreviewGenCalls <= 1

\* Calls of generateDemonstrationAudio made by handleGenerateAndPlayDemo (of the
\* mounted instance or of an unmounted one) that have not settled
DemoGenCalls == SumCounts(tasks, { t \in Pending : t.kind = "demo" /\ t.pc = "gen" })

\* C12: at most one demonstration generation request is outstanding at any time;
\* while one is, the flag isGeneratingDemo of the instance is set.
C12_OneDemoGeneration ==
    /\ DemoGenCalls <= 1
    /\ \A t \in Pending : (t.kind = "demo" /\ t.pc = "gen" /\ t.mounted) => isGeneratingDemo

------------------------------------------------------------------------------
(* Properties of the codec functions *)

\* The PCM payload: the bytes the base64 text stands for
Payload == atob(base64).value

\* The unsigned little-endian numbers read from 4 and from 2 bytes at an offset
U32At(w, off) == w[off + 1] + 256 * w[off + 2] + 65536 * w[off + 3] + 16777216 * w[off + 4]
U16At(w, off) == w[off + 1] + 256 * w[off + 2]

\* C13: the 44 header bytes written by base64ToWavBlob are 'RIFF', 36+dataLen,
\* 'WAVE', 'fmt ', 16, 1, 1, r, r*2, 2, 16, 'data', dataLen at offsets 0, 4, 8,
\* 12, 16, 20, 22, 24, 28, 32, 34, 36, 40, numbers little-endian; an empty payload
\* at 24000 Hz gives ChunkSize 36 and Subchunk2Size 0.
C13_WavHeader ==
    (wavBlob.done /\ wavBlob.ok) =>
        LET w == wavBlob.value
            dataLen == Len(Payload)
        IN  /\ Len(w) >= 44
            /\ SubSeq(w, 1, 4) = <<82, 73, 70, 70>>
            /\ U32At(w, 4) = 36 + dataLen
            /\ SubSeq(w, 9, 12) = <<87, 65, 86, 69>>
            /\ SubSeq(w, 13, 16) = <<102, 109, 116, 32>>
            /\ U32At(w, 16) = 16
            /\ U16At(w, 20) = 1
            /\ U16At(w, 22) = 1
            /\ U32At(w, 24) = sampleRate
            /\ U32At(w, 28) = sampleRate * 2
            /\ U16At(w, 32) = 2
            /\ U16At(w, 34) = 16
            /\ SubSeq(w, 37, 40) = <<100, 97, 116, 97>>
            /\ U32At(w, 40) = dataLen
            /\ (dataLen = 0 /\ sampleRate = 24000) => (U32At(w, 4) = 36 /\ U32At(w, 40) = 0)

\* C13 witness: base64ToWavBlob was applied to an empty payload at 24000 Hz.
C13_Witness ==
    /\ wavBlob.done /\ wavBlob.ok
    /\ Len(Payload) = 0
    /\ sampleRate = 24000
    /\ Len(wavBlob.value) = 44

\* C14: the output of base64ToWavBlob is 44 bytes longer than the payload, for
\* every payload length including 0.
C14_WavLength ==
    (wavBlob.done /\ wavBlob.ok) => Len(wavBlob.value) = 44 + Len(Payload)

\* C14 witness: base64ToWavBlob was applied to a payload of four bytes.
C14_Witness == wavBlob.done /\ wavBlob.ok /\ Len(Payload) = 4 /\ Len(wavBlob.value) = 48

\* C15: for a payload of even length, the output of base64ToWavBlob without its
\* first 44 bytes is the payload, byte for byte.
C15_WavRoundTrip ==
    (wavBlob.done /\ wavBlob.ok /\ Len(Payload) % 2 = 0) =>
        SubSeq(wavBlob.value, 45, Len(wavBlob.value)) = Payload

\* C15 witness: base64ToWavBlob was applied to a payload of four bytes that are
\* not all the same.
C15_Witness ==
    /\ wavBlob.done /\ wavBlob.ok
    /\ Len(Payload) = 4
    /\ Payload[1] # Payload[2]
    /\ Payload[3] # Payload[4]
    /\ Len(wavBlob.value) > 44

\* C16: for a payload of odd length decodePCM16 throws (the RangeError of the
\* 16-bit view) and returns no samples, and playRawAudio starts no source.
C16_OddLengthFails ==
    (atob(base64).ok /\ Len(Payload) % 2 = 1) =>
        /\ audioBuffer.done =>
              (~audioBuffer.ok /\ audioBuffer.error = "RangeError" /\ audioBuffer.value = <<>>)
        /\ played.done => (played.failed /\ played.started = 0)

\* C16 witness: decodePCM16 and playRawAudio were applied to a payload of 3 bytes.
C16_Witness ==
    /\ atob(base64).ok /\ Len(Payload) = 3
    /\ audioBuffer.done /\ ~audioBuffer.ok
    /\ played.done /\ played.failed

\* The signed 16-bit number whose low byte is lo and whose high byte is hi
S16LE(lo, hi) == IF hi >= 128 THEN lo + 256 * hi - 65536 ELSE lo + 256 * hi

\* C17: for every payload b of even length, decode followed by decodePCM16 gives
\* len(b)/2 samples, sample i being the signed little-endian 16-bit number of
\* b[2i], b[2i+1] divided by 32768, within [-1, 1]; zero bytes give zero samples.
C17_DecodeSamples ==
    (audioBuffer.done /\ atob(base64).ok /\ Len(Payload) % 2 = 0) =>
        /\ audioBuffer.ok
        /\ Len(audioBuffer.value) = Len(Payload) \div 2
        /\ \A i \in 1..Len(audioBuffer.value) :
              /\ audioBuffer.value[i].den = 32768
              /\ audioBuffer.value[i].num = S16LE(Payload[2 * i - 1], Payload[2 * i])
              /\ audioBuffer.value[i].num >= -32768
              /\ audioBuffer.value[i].num <= 32767
        /\ (\A j \in 1..Len(Payload) : Payload[j] = 0)
              => \A i \in 1..Len(audioBuffer.value) : audioBuffer.value[i].num = 0

\* What the code that called playRawAudio holds after the call returned
CallerView ==
    [isPlayingDemo |-> isPlayingDemo, isGeneratingDemo |-> isGeneratingDemo,
     previewingVoiceId |-> previewingVoiceId]

\* C18: a failure inside playRawAudio (resume rejected, or data that does not
\* decode) leaves its caller with an outcome that differs from the outcome of a
\* successfully started session.
C18_FailureSurfaced ==
    [][ \A t \in Pending :
          (t.mounted /\ (ResumeRejected(t) \/ (ResumeResolved(t) /\ ~Decodable(t.data))))
             => CallerView' # CallerAfterPlay(t, FALSE)
      ]_vars

\* A play request of the mounted instance's demo handler fails in this step:
\* playRawAudio returns through its catch branch (the data does not decode, or
\* ctx.resume() rejected)
DemoPlaybackFails ==
    \/ DemoPlayCached /\ tasks' = tasks /\ ~Decodable(demoAudioData)
    \/ \E t \in Pending :
          /\ t.mounted
          /\ DemoGenResolved(t)
          /\ BagCardinality(tasks') < BagCardinality(tasks)
          /\ ~Decodable(demoAudioData')
    \/ \E t \in Pending :
          /\ t.mounted /\ t.kind = "demo"
          /\ ResumeRejected(t) \/ (ResumeResolved(t) /\ ~Decodable(t.data))

\* C19: after a playback failure in a play request isPlayingDemo and
\* isGeneratingDemo are false, and the control is enabled and its next activation
\* takes a play branch (not the stop branch).
C19_IdleAfterFailure ==
    [][ DemoPlaybackFails =>
          /\ ~isPlayingDemo'
          /\ ~isGeneratingDemo'
          /\ mode' = "PRACTICE" /\ script' # <<>>
          /\ ~(isPlayingDemo' /\ stopDemoRef' # NULL)
      ]_vars

\* C20: a source starts rendering only while the context is running, and when
\* the context was suspended before the step, the step is the completion of
\* ctx.resume().
C20_ResumeBeforeStart ==
    [][ RenderingCount' > RenderingCount =>
          /\ audioContext' = "running"
          /\ audioContext = "suspended" => last'.op = "ResumeResolved"
      ]_vars

\* C20 witness: ctx.resume() completed and the source of the call renders.
C20_Witness ==
    /\ last.op = "ResumeResolved"
    /\ RenderingCount > 0
    /\ audioContext = "running"

\* The steps in which playRawAudio is entered and calls getAudioContext
PlayRawAudioCalled == {"DemoPlayCached", "DemoGenResolved", "PreviewGenResolved"}

\* C21: the audio context is created by the first call of playRawAudio and never
\* again: once it exists it is not torn down, and it is the same context in every
\* later step, its state changing only when its own resume() completes.
C21_LazySingleton ==
    [][ /\ audioContext # NULL => audioContext' # NULL
        /\ audioContext' # audioContext =>
              \/ audioContext = NULL /\ last'.op \in PlayRawAudioCalled
              \/ /\ audioContext = "suspended" /\ audioContext' = "running"
                 /\ last'.op = "ResumeResolved"
      ]_vars

\* C21 witness: playRawAudio was called for the cached asset, a later call than
\* the one that played it after its generation, and found the context running.
C21_Witness ==
    /\ last.op = "DemoPlayCached"
    /\ audioContext = "running"
    /\ DemoRenderingCount > 0

\* C22: handleDownload runs its body only while an asset is cached; the file it
\* offers is the WAV encoding at 24000 Hz of the asset cached in that step; it
\* changes neither the cache nor any playback state; no other step offers a file.
C22_DownloadCurrentAsset ==
    [][ /\ last'.op = "handleDownload" =>
              /\ demoAudioData # NoAudio
              /\ last'.file # NoFile =>
                    /\ last'.file.asset = demoAudioData
                    /\ last'.file.asset = demoAudioData'
                    /\ last'.file.sampleRate = 24000
              /\ UNCHANGED prog
        /\ last'.file # NoFile => last'.op = "handleDownload"
      ]_vars

\* C22 witness: the cached asset was offered for download while its session was
\* rendering.
C22_Witness ==
    /\ last = [op |-> "handleDownload", on |-> "offered",
               file |-> [asset |-> demoAudioData, sampleRate |-> 24000]]
    /\ demoAudioData # NoAudio
    /\ isPlayingDemo
    /\ DemoRenderingCount = 1

\* The steps the cache is to survive: play, stop, natural completion, playback
\* failure, download, voice preview, recording start and stop (and the steps of
\* a generation other than its success)
CachePreserving ==
    {"DemoStop", "DemoPlayCached", "DemoBlankScript", "DemoGenerate", "DemoGenRejected",
     "ResumeResolved", "ResumeRejected", "SourceEnds", "onEnded", "handleDownload",
     "PreviewDeclined", "PreviewStart", "PreviewGenResolved", "PreviewGenRejected",
     "startRecording", "MicGranted", "MicDenied", "stopRecording"}

\* C23: demoAudioData of a PracticeStudio instance changes only when a generation
\* of that instance resolved (it is set) and when a voice row is clicked (it is
\* cleared); every other handler and completion leaves it as it is.  (Unmounting
\* ends the instance and its state with it.)
C23_CacheFrame ==
    [][ /\ demoAudioData' # demoAudioData =>
              \/ last' = Did("DemoGenResolved", "mounted") /\ demoAudioData' # NoAudio
              \/ last'.op = "SelectVoice" /\ demoAudioData' = NoAudio
              \/ last'.op = "UnmountPracticeStudio"
        /\ last'.op \in CachePreserving => demoAudioData' = demoAudioData
      ]_vars

\* C23 witness: a play request for the cached asset failed (ctx.resume() rejected)
\* and the asset is still cached.
C23_Witness ==
    /\ last = Did("ResumeRejected", "demo")
    /\ mode = "PRACTICE"
    /\ demoAudioData # NoAudio
    /\ ~isPlayingDemo

\* The calls of generateDemonstrationAudio made in the step
NewCalls == { t \in BagToSet(tasks') : t.pc = "gen" /\ CopiesIn(t, tasks') > CopiesIn(t, tasks) }

\* C24: the demo handler calls generateDemonstrationAudio with the first 500
\* characters of the script (the whole script when it is shorter) and the id of
\* the voice selected when the request is made.
C24_RequestText ==
    [][ DemoGenerate =>
          /\ Cardinality(NewCalls) = 1
          /\ \A t \in NewCalls :
                /\ t.kind = "demo"
                /\ t.voice = selectedVoice
                /\ Len(t.text) = (IF Len(script) < 500 THEN Len(script) ELSE 500)
                /\ \A i \in 1..Len(t.text) : t.text[i] = script[i]
      ]_vars

\* C24 witness: a generation was requested for a script of more than 500
\* characters with another voice than the default selected.
C24_Witness ==
    /\ last.op = "DemoGenerate"
    /\ Len(script) > 500
    /\ selectedVoice = "Charon"
    /\ \E t \in Pending :
          /\ t.pc = "gen" /\ t.kind = "demo" /\ t.voice = "Charon"
          /\ Len(t.text) = 500 /\ t.text[500] = "y"

\* C25: whenever an asset is cached, it was generated with the id of the voice
\* that is selected.
C25_CacheMatchesVoice == demoAudioData # NoAudio => demoAudioData.voice = selectedVoice

\* C26: while a demo source started by the mounted instance's handler renders,
\* isPlayingDemo is true and stopDemoRef holds the stop closure of that source.
C26_PlayingTracksSession ==
    \A s \in Alive :
       (s.kind = "demo" /\ s.mounted /\ s.state = "rendering")
          => (isPlayingDemo /\ stopDemoRef = "stop" /\ s.held)

\* Calls of the mounted instance's demo handler that are suspended and start a
\* session when they are resumed: a generation in flight, or a playRawAudio call
\* awaiting ctx.resume() whose data decodes
DemoSessionsToCome ==
    { t \in Pending : t.kind = "demo" /\ t.mounted /\ (t.pc = "gen" \/ Decodable(t.data)) }

\* C27: when startRecording has run, no demo session of the instance renders and
\* none that was requested before is still to start (a generation in flight, a
\* playRawAudio call awaiting ctx.resume()), so that none of them renders during
\* the recording.
C27_RecordingSilencesDemo ==
    [][ startRecording =>
          /\ DemoRenderingCount' = 0
          /\ DemoSessionsToCome' = {}
      ]_vars

\* C28: no demo session of a PracticeStudio instance that has been unmounted
\* renders: none keeps rendering over the unmount and none starts after it.
C28_SilentAfterUnmount ==
    \A s \in Alive : (s.kind = "demo" /\ ~s.mounted) => s.state # "rendering"

PreviewStep(l) ==
    \/ l.op \in {"PreviewDeclined", "PreviewStart", "PreviewGenResolved", "PreviewGenRejected"}
    \/ l.op \in {"ResumeResolved", "ResumeRejected"} /\ l.on = "preview"

\* The source whose stop closure stopDemoRef holds renders
HeldRenders(srcs) == \E s \in BagToSet(srcs) : s.held /\ s.state = "rendering"

\* C30: no step of handlePreviewVoice, successful or failing, changes
\* selectedVoice, demoAudioData, isPlayingDemo, isGeneratingDemo or stopDemoRef
\* (the reference and the source it closes over).
C30_PreviewFrame ==
    [][ PreviewStep(last') =>
          /\ UNCHANGED <<selectedVoice, demoAudioData, isPlayingDemo,
                         isGeneratingDemo, stopDemoRef>>
          /\ HeldRenders(sources') <=> HeldRenders(sources)
      ]_vars

\* C30 witness: a preview failed (its generation was rejected) while the demo
\* session was rendering and its asset was cached.
C30_Witness ==
    /\ last = Did("PreviewGenRejected", "mounted")
    /\ isPlayingDemo
    /\ stopDemoRef = "stop"
    /\ demoAudioData # NoAudio
    /\ DemoRenderingCount = 1

====
